---- MODULE Spec2Model ----
(***************************************************************************)
(* Chops Net IP: the io_interface handle (a weak reference to an I/O       *)
(* handler), the io_handler_mock it is exercised with, and the shared      *)
(* ownership of handlers.                                                  *)
(*                                                                         *)
(* io_handler_mock and net_entity_mock are in                              *)
(* test/include/net_ip/shared_utility_test.hpp.  basic_io_interface.hpp    *)
(* itself is not among the source files: the handle is modelled from       *)
(* section 4.5 and section 9 of the specification (weak pointer, upgraded  *)
(* on each call, operations delegate to the handler).                      *)
(***************************************************************************)
EXTENDS Integers, Sequences, FiniteSets, TLC

(* ------------------------------ bounds -------------------------------- *)

\* Largest number of shared_ptr owners of one handler at a time.
MaxOwners == 2

\* Number of send / start_io / stop_io calls made through handles in one run.
MaxCalls == 3

\* Number of handles put into one sorted container.
SortedLen == 3

(* ------------------------- program constants -------------------------- *)

\* io_handler_mock::qs_base
qs_base == 42

\* io_handler_mock::sock, the mock's socket_type is int
sock_init == 3

\* The io handler objects: ioh1 and ioh2 of basic_io_interface_test_compare,
\* numbered in the order of their identity (the address operator< compares).
Handlers == {1, 2}

\* The io_interface variables of user code: a handle and a second one it can
\* be copied to or compared with.
Handles == {1, 2}

\* The value of a handle whose weak pointer is empty (default constructed).
NoHandler == 0

\* The values an io_interface can hold: empty, or a weak pointer to a handler.
HandleValues == Handlers \cup {NoHandler}

\* The connector threads of acceptor_test, and with them the connections.
Conns == {1, 2}

\* The threads that call member functions of one send_to_all object.
Threads == {1, 2}

\* The value of m_mutex when no thread holds it.
NoThread == 0

\* A thread that is not inside a send_to_all member function.
idle_thread ==
    [ pc |-> "idle", op |-> "none", arg |-> NoHandler, idx |-> 0,
      snap |-> << >>, sent |-> << >>, size |-> 0,
      stats |-> [ output_queue_size |-> 0, bytes_in_output_queue |-> 0 ] ]

\* The six start_io overloads of io_handler_mock, named after the flag each sets.
StartIoOverloads ==
    {"mf_sio_called", "delim_sio_called", "rd_sio_called",
     "rd_endp_sio_called", "send_sio_called", "send_endp_sio_called"}

\* The handle's send overloads: pointer and size, const buffer, mutable buffer,
\* each with or without a destination endpoint.
SendOverloads ==
    {"ptr_sz", "const_buf", "mutable_buf",
     "ptr_sz_endp", "const_buf_endp", "mutable_buf_endp"}

VARIABLES
    ioh,      \* ioh[h]: the fields of io_handler_mock object h
    owners,   \* owners[h]: shared_ptr owners of h held by supervisors and in-flight operations
    alive,    \* alive[h]: h has not been destroyed
    handles,  \* handles[i]: the value of io_interface variable i
    op,       \* the latest call made through a handle: "send", "start_io", "stop_io"
    ret,      \* the value that call returned
    calls,    \* number of send / start_io / stop_io calls made through handles
    flips,    \* flips[h]: how often started of h went false -> true (up) and true -> false (down)
    m_io_intfs, \* send_to_all::m_io_intfs, the vector of handles
    sta_op,   \* the latest send_to_all member function called
    sta_ret,  \* what that call returned: size (size), stats (get_total_output_queue_stats)
    sent_to,  \* the handlers that call called send on, in call order (send)
    m_mutex,  \* send_to_all::m_mutex: the thread that holds it, or NoThread
    thr,      \* thr[t]: where thread t is in its call of a send_to_all member function
    removed,  \* handlers whose handle was removed from the send_to_all and not added since
    ne_started, \* net_entity_mock::started
    ne_thr,   \* net_entity_mock::thr: 0 when not joinable, else the number of the next
              \* callback the thread makes, past the last one when it has finished
    ne_caller, \* the thread that uses the entity: "ready", or "joining" inside stop()
    ne_op,    \* the latest member function of the entity that returned
    ne_ret,   \* the value it returned
    ne_count, \* how many start() and stop() calls have returned true
    ne_delim, \* the delimiter held by the state change callback given to start()
    cb_log,   \* the callbacks made so far, in order, each with the number of its start
    acc_state, \* the TCP acceptor: "created", "started" or "stopped"
    acc_test, \* the arguments of acceptor_test: reply, delim, length of the message preamble
    conn,     \* conn[c]: where connector_func c is, and its count of messages written
    wire,     \* wire[c]: messages written by connector c and not yet read by its handler
    back,     \* back[c]: messages sent by c's handler and not yet read by connector c
    hd,       \* hd[c]: state of the TCP handler of c's connection, "none" before accept
    delivered, \* delivered[c]: the messages the message handler counted, in order
    cnt,      \* the test_counter shared by the message handlers
    acc_log,  \* the acceptor's callbacks so far, in order
    mk,       \* the message being built and handled: body, message, results of the calls
    q_mutex,  \* q_mutex[h]: the thread that holds the lock of h's output queue, or NoThread
    rp        \* one call of chops::repeat: its count, the next index, what f has seen

\* The handle, the handler mock and its owners.
io_vars == <<ioh, owners, alive, handles, op, ret, calls, flips>>

\* One send_to_all object.
sta_vars == <<m_io_intfs, sta_op, sta_ret, sent_to>>

\* The threads that share the send_to_all object, and its mutex.
thr_vars == <<m_mutex, thr, removed>>

\* One net_entity_mock, its thread, and the callbacks it was given.
entity_vars == <<ne_started, ne_thr, ne_caller, ne_op, ne_ret, ne_count, ne_delim, cb_log>>

\* The acceptor test: acceptor, handlers, connectors and the bytes between them.
acc_vars == <<acc_state, acc_test, conn, wire, back, hd, delivered, cnt, acc_log>>

\* The message utilities, the output queue locks, and chops::repeat.
util_vars == <<mk, q_mutex, rp>>

\* What the handle and send_to_all leave alone.
later_vars == <<entity_vars, acc_vars, util_vars>>

\* What a call through a handle leaves alone.
other_vars == <<sta_vars, thr_vars, later_vars>>

vars == <<io_vars, other_vars>>

(* --------------------------- io_handler_mock -------------------------- *)

\* A freshly constructed io_handler_mock.
io_handler_mock ==
    [ sock                 |-> sock_init,
      started              |-> FALSE,
      send_called          |-> FALSE,
      mf_sio_called        |-> FALSE,
      delim_sio_called     |-> FALSE,
      rd_sio_called        |-> FALSE,
      rd_endp_sio_called   |-> FALSE,
      send_sio_called      |-> FALSE,
      send_endp_sio_called |-> FALSE ]

\* bool is_io_started() const { return started; }
mock_is_io_started(s) == s.started

\* socket_type& get_socket() { return sock; }
mock_get_socket(s) == s.sock

\* Variant of get_output_queue_stats that reports the queue size for both members.
mock_get_output_queue_stats_same(s) ==
    [ output_queue_size |-> qs_base, bytes_in_output_queue |-> qs_base ]

\* output_queue_stats { qs_base, qs_base + 1 }
mock_get_output_queue_stats(s) ==
    [ output_queue_size |-> qs_base, bytes_in_output_queue |-> qs_base + 1 ]

\* Variant of send that records the call only on a started handler.
mock_send_if_started(s) == IF s.started THEN [ s EXCEPT !.send_called = TRUE ] ELSE s

\* void send(const_shared_buffer) and void send(const_shared_buffer, const endpoint_type&):
\* both set send_called, whether or not the handler is started.
mock_send(s) == [ s EXCEPT !.send_called = TRUE ]

\* return started ? false : started = true, xx_sio_called = true, true;
\* The comma operator binds weaker than ?: , so the statement is
\*   ((started ? false : (started = true)), (xx_sio_called = true), true)
\* started is assigned only when it was false, the flag is set on every call,
\* and the value returned is the last operand, true.
mock_start_io(s, ov) ==
    LET s1 == IF s.started THEN s ELSE [ s EXCEPT !.started = TRUE ]
        s2 == [ s1 EXCEPT ![ov] = TRUE ]
    IN  [ ret |-> TRUE, ioh |-> s2 ]

\* Variant of stop_io that reports a transition on every call.
mock_stop_io_always_true(s) == [ ret |-> TRUE, ioh |-> [ s EXCEPT !.started = FALSE ] ]

\* return started ? started = false, true : false;
\* Between ? and : the comma expression is one operand:
\*   started ? ((started = false), true) : false
mock_stop_io(s) ==
    IF s.started
    THEN [ ret |-> TRUE,  ioh |-> [ s EXCEPT !.started = FALSE ] ]
    ELSE [ ret |-> FALSE, ioh |-> s ]

(* ------------------------- handler ownership -------------------------- *)

\* Variant in which every handle pointing at h owns it (a shared_ptr in the handle).
handle_strong_refs_owning(hs, h) == Cardinality({ i \in DOMAIN hs : hs[i] = h })

\* Strong references the handles hs contribute to handler h: none, a handle
\* holds a weak pointer.
handle_strong_refs(hs, h) == 0

\* shared_ptr use count of handler h.
use_count(own, hs, h) == own[h] + handle_strong_refs(hs, h)

(* ------------------------- io_interface handle ------------------------ *)

\* weak_ptr::lock() on the handle value io: the handler reached, NoHandler when
\* the weak pointer is empty or the handler has been destroyed.
lock(io) == IF io # NoHandler /\ alive[io] THEN io ELSE NoHandler

is_valid(io) == lock(io) # NoHandler

\* The outcome of a query on an invalid handle: an error, no value.
invalid_handle == [ err |-> "invalid_handle" ]

\* Variant of is_io_started that dereferences the stored pointer without lock().
is_io_started_unlocked(io) ==
    IF io # NoHandler
    THEN [ err |-> "none", val |-> mock_is_io_started(ioh[io]) ]
    ELSE invalid_handle

is_io_started(io) ==
    IF is_valid(io)
    THEN [ err |-> "none", val |-> mock_is_io_started(ioh[lock(io)]) ]
    ELSE invalid_handle

get_socket(io) ==
    IF is_valid(io)
    THEN [ err |-> "none", val |-> mock_get_socket(ioh[lock(io)]) ]
    ELSE invalid_handle

get_output_queue_stats(io) ==
    IF is_valid(io)
    THEN [ err |-> "none", val |-> mock_get_output_queue_stats(ioh[lock(io)]) ]
    ELSE invalid_handle

\* Variant of operator== that compares the stored pointers.
handle_eq_raw(a, b) == a = b

\* operator==: same live handler, or both invalid.
handle_eq(a, b) ==
    \/ is_valid(a) /\ is_valid(b) /\ lock(a) = lock(b)
    \/ ~is_valid(a) /\ ~is_valid(b)

\* Variant of operator< that compares the stored pointers.
handle_lt_raw(a, b) == a < b

\* operator<: invalid before valid; among valid, by handler identity.
handle_lt(a, b) ==
    \/ is_valid(a) /\ is_valid(b) /\ lock(a) < lock(b)
    \/ ~is_valid(a) /\ is_valid(b)

(* ------------------------------ actions ------------------------------- *)

Init ==
    /\ ioh = [ h \in Handlers |-> io_handler_mock ]
    /\ owners = [ h \in Handlers |-> 1 ]
    /\ alive = [ h \in Handlers |-> TRUE ]
    /\ handles = [ i \in Handles |-> NoHandler ]
    /\ op = "none"
    /\ ret = FALSE
    /\ calls = 0
    /\ flips = [ h \in Handlers |-> [ up |-> 0, down |-> 0 ] ]
    /\ m_io_intfs = << >>
    /\ sta_op = "none"
    /\ sta_ret = [ err |-> "none", size |-> 0,
                   stats |-> [ output_queue_size |-> 0, bytes_in_output_queue |-> 0 ] ]
    /\ sent_to = << >>
    /\ m_mutex = NoThread
    /\ thr = [ t \in Threads |-> idle_thread ]
    /\ removed = {}
    /\ ne_started = FALSE
    /\ ne_thr = 0
    /\ ne_caller = "ready"
    /\ ne_op = "none"
    /\ ne_ret = FALSE
    /\ ne_count = [ starts |-> 0, stops |-> 0 ]
    /\ ne_delim = ""
    /\ cb_log = << >>
    /\ acc_state = "created"
    /\ acc_test = [ reply |-> FALSE, delim |-> "", pre |-> 0 ]
    /\ conn = [ c \in Conns |-> [ pc |-> "init", cnt |-> 0 ] ]
    /\ wire = [ c \in Conns |-> << >> ]
    /\ back = [ c \in Conns |-> << >> ]
    /\ hd = [ c \in Conns |-> "none" ]
    /\ delivered = [ c \in Conns |-> << >> ]
    /\ cnt = 0
    /\ acc_log = << >>
    /\ mk = [ stage |-> "none", le |-> FALSE, body |-> << >>, func |-> "none",
              msg |-> << >>, decoded |-> -1, reply |-> FALSE, ret |-> FALSE,
              sent |-> << >>, cnt |-> 0 ]
    /\ q_mutex = [ h \in Handlers |-> NoThread ]
    /\ rp = [ pc |-> "none", f |-> "none", n |-> 0, i |-> 0, gSum |-> 0, ok |-> TRUE,
              seen |-> << >>, pre |-> << >>, vec |-> << >>,
              func |-> "none", le |-> FALSE ]

\* The flips of started that the step from handler state s to t makes.
count_flips(f, s, t) ==
    [ up   |-> f.up   + (IF ~s.started /\ t.started THEN 1 ELSE 0),
      down |-> f.down + (IF s.started /\ ~t.started THEN 1 ELSE 0) ]

\* io_intf.send(...): p = lock(); p ? (p->send(buf), true) : false
send(i, ov) ==
    /\ calls < MaxCalls
    /\ calls' = calls + 1
    /\ op' = "send"
    /\ LET p == lock(handles[i]) IN
         /\ ioh' = IF p # NoHandler THEN [ ioh EXCEPT ![p] = mock_send(@) ] ELSE ioh
         /\ ret' = (p # NoHandler)
    /\ UNCHANGED <<owners, alive, handles, flips>>
    /\ UNCHANGED other_vars

\* Variant of the handle's start_io that calls through the stored pointer without lock().
start_io_unlocked(i, ov) ==
    /\ calls < MaxCalls
    /\ calls' = calls + 1
    /\ op' = "start_io"
    /\ LET p == handles[i] IN
         IF p # NoHandler
         THEN LET r == mock_start_io(ioh[p], ov) IN
                /\ ioh' = [ ioh EXCEPT ![p] = r.ioh ]
                /\ ret' = r.ret
                /\ flips' = [ flips EXCEPT ![p] = count_flips(@, ioh[p], r.ioh) ]
         ELSE /\ ioh' = ioh
              /\ ret' = FALSE
              /\ flips' = flips
    /\ UNCHANGED <<owners, alive, handles>>
    /\ UNCHANGED other_vars

\* io_intf.start_io(...): p = lock(); p ? p->start_io(...) : false
start_io(i, ov) ==
    /\ calls < MaxCalls
    /\ calls' = calls + 1
    /\ op' = "start_io"
    /\ LET p == lock(handles[i]) IN
         IF p # NoHandler
         THEN LET r == mock_start_io(ioh[p], ov) IN
                /\ ioh' = [ ioh EXCEPT ![p] = r.ioh ]
                /\ ret' = r.ret
                /\ flips' = [ flips EXCEPT ![p] = count_flips(@, ioh[p], r.ioh) ]
         ELSE /\ ioh' = ioh
              /\ ret' = FALSE
              /\ flips' = flips
    /\ UNCHANGED <<owners, alive, handles>>
    /\ UNCHANGED other_vars

\* io_intf.stop_io(): p = lock(); p ? p->stop_io() : false
stop_io(i) ==
    /\ calls < MaxCalls
    /\ calls' = calls + 1
    /\ op' = "stop_io"
    /\ LET p == lock(handles[i]) IN
         IF p # NoHandler
         THEN LET r == mock_stop_io(ioh[p]) IN
                /\ ioh' = [ ioh EXCEPT ![p] = r.ioh ]
                /\ ret' = r.ret
                /\ flips' = [ flips EXCEPT ![p] = count_flips(@, ioh[p], r.ioh) ]
         ELSE /\ ioh' = ioh
              /\ ret' = FALSE
              /\ flips' = flips
    /\ UNCHANGED <<owners, alive, handles>>
    /\ UNCHANGED other_vars

\* io_interface_mock(iop): a handle made from an owner's shared_ptr.
make_handle(i, h) ==
    /\ owners[h] > 0
    /\ handles' = [ handles EXCEPT ![i] = h ]
    /\ UNCHANGED <<ioh, owners, alive, op, ret, calls, flips>>
    /\ UNCHANGED other_vars

\* io_intf2 = io_intf4: copy assignment of the weak pointer.
assign(i, j) ==
    /\ i # j
    /\ handles' = [ handles EXCEPT ![i] = handles[j] ]
    /\ UNCHANGED <<ioh, owners, alive, op, ret, calls, flips>>
    /\ UNCHANGED other_vars

\* io_intf = basic_io_interface { }: assignment of a default constructed handle.
reset(i) ==
    /\ handles' = [ handles EXCEPT ![i] = NoHandler ]
    /\ UNCHANGED <<ioh, owners, alive, op, ret, calls, flips>>
    /\ UNCHANGED other_vars

\* An in-flight operation (or another owner) copies the shared_ptr.
copy_owner(h) ==
    /\ owners[h] > 0
    /\ owners[h] < MaxOwners
    /\ owners' = [ owners EXCEPT ![h] = @ + 1 ]
    /\ UNCHANGED <<ioh, alive, handles, op, ret, calls, flips>>
    /\ UNCHANGED other_vars

\* An owner drops its shared_ptr; the handler is destroyed with the last one.
drop_owner(h) ==
    /\ owners[h] > 0
    /\ owners' = [ owners EXCEPT ![h] = @ - 1 ]
    /\ alive' = [ alive EXCEPT ![h] = use_count(owners', handles, h) > 0 ]
    /\ UNCHANGED <<ioh, handles, op, ret, calls, flips>>
    /\ UNCHANGED other_vars

Next ==
    \/ \E i \in Handles, ov \in SendOverloads : send(i, ov)
    \/ \E i \in Handles, ov \in StartIoOverloads : start_io(i, ov)
    \/ \E i \in Handles : stop_io(i)
    \/ \E i \in Handles, h \in Handlers : make_handle(i, h)
    \/ \E i \in Handles, j \in Handles : assign(i, j)
    \/ \E i \in Handles : reset(i)
    \/ \E h \in Handlers : copy_owner(h)
    \/ \E h \in Handlers : drop_owner(h)

Spec == Init /\ [][Next]_vars

\* Handles being made, copied, compared and sent through while handlers come
\* and go: the steps of basic_io_interface_test_compare, with no start_io or
\* stop_io.
NextCmp ==
    \/ \E i \in Handles, ov \in SendOverloads : send(i, ov)
    \/ \E i \in Handles, h \in Handlers : make_handle(i, h)
    \/ \E i \in Handles, j \in Handles : assign(i, j)
    \/ \E i \in Handles : reset(i)
    \/ \E h \in Handlers : copy_owner(h)
    \/ \E h \in Handlers : drop_owner(h)

SpecCmp == Init /\ [][NextCmp]_vars

\* Calls through handles on handlers that each have their one owner
\* (basic_io_interface_test_two; the owner may go away, as ioh's does at scope end).
NextIo ==
    \/ \E i \in Handles, ov \in SendOverloads : send(i, ov)
    \/ \E i \in Handles, ov \in StartIoOverloads : start_io(i, ov)
    \/ \E i \in Handles : stop_io(i)
    \/ \E i \in Handles, h \in Handlers : make_handle(i, h)
    \/ \E h \in Handlers : drop_owner(h)

SpecIo == Init /\ [][NextIo]_vars

\* Handles and owners coming and going around the three kinds of call, each
\* through one overload: which overload is called makes no difference to who
\* owns the handler.
NextOwn ==
    \/ \E i \in Handles : send(i, "const_buf")
    \/ \E i \in Handles : start_io(i, "mf_sio_called")
    \/ \E i \in Handles : stop_io(i)
    \/ \E i \in Handles, h \in Handlers : make_handle(i, h)
    \/ \E i \in Handles, j \in Handles : assign(i, j)
    \/ \E i \in Handles : reset(i)
    \/ \E h \in Handlers : copy_owner(h)
    \/ \E h \in Handlers : drop_owner(h)

SpecOwn == Init /\ [][NextOwn]_vars

(* ------------------------------ claims -------------------------------- *)

\* A call of send, start_io or stop_io, any overload, through handle variable i.
handle_call(i) ==
    \/ \E ov \in SendOverloads : send(i, ov)
    \/ \E ov \in StartIoOverloads : start_io(i, ov)
    \/ stop_io(i)

\* Every handler is as constructed.
untouched == ioh = [ h \in Handlers |-> io_handler_mock ]

\* C1: on an invalid handle (default constructed, or its handler destroyed) every
\* overload of send, every overload of start_io, and stop_io returns false, and
\* no handler's state changes.
C1_InvalidHandleCallsReturnFalse ==
    [][ \A i \in Handles :
          (calls' # calls /\ ~is_valid(handles[i]) /\ handle_call(i))
              => (ret' = FALSE /\ ioh' = ioh) ]_vars

\* A start_io has returned false (the mock's own start_io never does) and every
\* handler is still as constructed.
C1_Witness == op = "start_io" /\ ret = FALSE /\ untouched

\* C2: on an invalid handle is_io_started, get_socket and get_output_queue_stats
\* each end in the invalid_handle error and deliver no value.
C2_InvalidHandleQueriesFail ==
    \A i \in Handles :
        ~is_valid(handles[i]) =>
            \A r \in { is_io_started(handles[i]), get_socket(handles[i]),
                       get_output_queue_stats(handles[i]) } :
                r.err = "invalid_handle" /\ "val" \notin DOMAIN r

\* A handle whose handler has been destroyed is queried.
C2_Witness ==
    \E i \in Handles :
        /\ handles[i] # NoHandler
        /\ ~alive[handles[i]]
        /\ is_io_started(handles[i]).err = "invalid_handle"
        /\ get_output_queue_stats(handles[i]).err = "invalid_handle"

\* C3: with no stop_io in between, only the first start_io on a handler returns
\* true; a start_io (any overload) on a handler that is already started returns
\* false and changes nothing: started stays true, no overload flag is newly set.
C3_RepeatedStartIoRejected ==
    [][ \A i \in Handles, ov \in StartIoOverloads :
          (is_valid(handles[i]) /\ ioh[handles[i]].started /\ start_io(i, ov))
              => (ret' = FALSE /\ ioh' = ioh) ]_vars

\* C4: over the life of a handler, started goes false -> true at most once and
\* true -> false at most once (no start_io starts a stopped handler again).
C4_StartedFlipsAtMostOnce ==
    \A h \in Handlers : flips[h].up <= 1 /\ flips[h].down <= 1

\* C5: stop_io returns true exactly when the handler was started at the call and
\* leaves it not started; on a handler that is not started it returns false and
\* changes nothing (so a second stop_io in a row returns false).
C5_StopIoIdempotent ==
    [][ \A i \in Handles :
          (is_valid(handles[i]) /\ stop_io(i)) =>
              LET p == handles[i] IN
                /\ ret' = ioh[p].started
                /\ ~ioh'[p].started
                /\ (~ioh[p].started => ioh' = ioh)
                /\ ioh' = [ ioh EXCEPT ![p].started = FALSE ] ]_vars

\* Three calls on one handler, all handles on it: started went up once and down
\* once and the latest call, a stop_io, returned false. The calls can only have
\* been start_io, stop_io (true), stop_io (false).
C5_Witness ==
    /\ op = "stop_io" /\ ret = FALSE /\ calls = 3
    /\ \E h \in Handlers :
         /\ flips[h] = [ up |-> 1, down |-> 1 ]
         /\ \A i \in Handles : handles[i] = h /\ is_valid(handles[i])

\* C6 as stated: a send through a valid handle whose handler is not started
\* returns false and leaves the handler untouched.
C6_SendBeforeStartFails ==
    [][ \A i \in Handles, ov \in SendOverloads :
          (is_valid(handles[i]) /\ ~ioh[handles[i]].started /\ send(i, ov))
              => (ret' = FALSE /\ ioh' = ioh) ]_vars

\* C6 amended: a send through a valid handle returns true and reaches the
\* handler's send (send_called is set, nothing else changes) whether or not the
\* handler is started; a send through an invalid handle returns false and
\* reaches no handler.
C6_SendReachesHandlerWhenValid ==
    [][ \A i \in Handles, ov \in SendOverloads :
          (op' = "send" /\ send(i, ov)) =>
              IF is_valid(handles[i])
              THEN /\ ret' = TRUE
                   /\ ioh' = [ ioh EXCEPT ![handles[i]].send_called = TRUE ]
              ELSE /\ ret' = FALSE
                   /\ ioh' = ioh ]_vars

\* A send has returned true on a handler that was never started.
C6_Witness ==
    /\ op = "send" /\ ret = TRUE
    /\ \E h \in Handlers :
         ioh[h].send_called /\ flips[h].up = 0 /\ ~ioh[h].started

\* What C7 says of a valid handle in every state.
C7_ValidHandleQueries ==
    \A i \in Handles :
        is_valid(handles[i]) =>
            LET h == handles[i] IN
              /\ is_io_started(handles[i]) = [ err |-> "none", val |-> ioh[h].started ]
              /\ (flips[h].up = 0 => is_io_started(handles[i]).val = FALSE)
              /\ get_output_queue_stats(handles[i]) =
                   [ err |-> "none",
                     val |-> [ output_queue_size     |-> qs_base,
                               bytes_in_output_queue |-> qs_base + 1 ] ]

\* What C7 says of is_io_started across start_io and stop_io.
C7_StartedFollowsCalls ==
    \A i \in Handles :
        is_valid(handles[i]) =>
            /\ ((\E ov \in StartIoOverloads : start_io(i, ov)) /\ ret' = TRUE)
                   => is_io_started(handles[i])' = [ err |-> "none", val |-> TRUE ]
            /\ stop_io(i)
                   => is_io_started(handles[i])' = [ err |-> "none", val |-> FALSE ]

\* C7: on a valid handle is_valid is true, is_io_started returns the handler's
\* started flag (false before start_io, true after a successful start_io, false
\* after stop_io) and get_output_queue_stats returns the handler's pair
\* (qs_base, qs_base + 1).
C7_ValidHandleReflectsHandler ==
    []C7_ValidHandleQueries /\ [][C7_StartedFollowsCalls]_vars

\* A handler was started and then stopped through a handle that still reaches
\* it: is_io_started is false again and the queue stats are the handler's.
C7_Witness ==
    /\ op = "stop_io" /\ ret = TRUE
    /\ \E i \in Handles :
         /\ is_valid(handles[i])
         /\ flips[handles[i]] = [ up |-> 1, down |-> 1 ]
         /\ is_io_started(handles[i]) = [ err |-> "none", val |-> FALSE ]
         /\ get_output_queue_stats(handles[i]).val.bytes_in_output_queue = qs_base + 1

\* A handle value with no live referent, said without lock().
no_referent(a) == a = NoHandler \/ ~alive[a]

\* What C8 says of any two handle values.
C8_EqualityCases ==
    \A a, b \in HandleValues :
        /\ handle_eq(a, b) <=>
             \/ ~no_referent(a) /\ ~no_referent(b) /\ a = b
             \/ no_referent(a) /\ no_referent(b)
        /\ (is_valid(a) /\ ~is_valid(b)) => (~handle_eq(a, b) /\ ~handle_eq(b, a))

\* What C8 says of assignment.
C8_AssignMakesEqual ==
    \A i, j \in Handles :
        assign(i, j) => /\ handle_eq(handles[i], handles[j])'
                        /\ handle_eq(handles[j], handles[i])'

\* C8: two handles are equal iff they refer to the same handler or both are
\* invalid; a valid handle never equals an invalid one; assigning one handle to
\* another makes them equal.
C8_HandleEquality ==
    []C8_EqualityCases /\ [][C8_AssignMakesEqual]_vars

\* A default constructed handle and a handle whose handler was destroyed compare
\* equal, while the other handler is alive and reachable.
C8_Witness ==
    /\ \E i, j \in Handles :
         /\ handles[i] = NoHandler
         /\ handles[j] # NoHandler /\ ~alive[handles[j]]
         /\ handle_eq(handles[i], handles[j])
    /\ \E h \in Handlers : is_valid(h)

\* The sequences of SortedLen handle values a sorted container can hold: no
\* element is less than an earlier one.
sorted_handles ==
    { s \in [ 1..SortedLen -> HandleValues ] :
        \A x, y \in 1..SortedLen : x < y => ~handle_lt(s[y], s[x]) }

\* C9: operator< is a strict weak order; every invalid handle is less than every
\* valid one, no handle is less than itself, two invalid handles are not less
\* than each other; in a sorted container all invalid handles precede all valid.
C9_HandleOrdering ==
    /\ \A a, b, c \in HandleValues :
         /\ ~handle_lt(a, a)
         /\ handle_lt(a, b) => ~handle_lt(b, a)
         /\ (handle_lt(a, b) /\ handle_lt(b, c)) => handle_lt(a, c)
         /\ (~handle_lt(a, b) /\ ~handle_lt(b, a) /\ ~handle_lt(b, c) /\ ~handle_lt(c, b))
                => (~handle_lt(a, c) /\ ~handle_lt(c, a))
         /\ (~is_valid(a) /\ is_valid(b)) => handle_lt(a, b)
         /\ (~is_valid(a) /\ ~is_valid(b)) => ~handle_lt(a, b)
    /\ \A s \in sorted_handles :
         \A x, y \in 1..SortedLen : (x < y /\ is_valid(s[x])) => is_valid(s[y])

\* The handler with the greater identity has been destroyed: the handle that
\* pointed at it is now less than the handle on the other, live handler.
C9_Witness ==
    /\ handles[1] = 2 /\ handles[2] = 1
    /\ ~alive[2] /\ alive[1]
    /\ handle_lt(handles[1], handles[2])

\* What C10 says in every state: a handler with no owner is destroyed, however
\* many handles point at it, and all those handles are invalid.
C10_NoOwnerNoHandler ==
    \A h \in Handlers :
        /\ alive[h] <=> owners[h] > 0
        /\ owners[h] = 0 => \A i \in Handles : handles[i] = h => ~is_valid(handles[i])

\* What C10 says of every step: an invalid handle becomes valid only by being
\* given another value, and calls through a handle whose handler has no owner
\* return false.
C10_InvalidStaysInvalid ==
    \A i \in Handles :
        /\ (~is_valid(handles[i]) /\ is_valid(handles[i])') => handles'[i] # handles[i]
        /\ (handles[i] # NoHandler /\ owners[handles[i]] = 0 /\ handle_call(i))
               => ret' = FALSE

\* C10: a handle never keeps its handler alive; once the last owner has dropped
\* the handler every copy of the handle is invalid, calls through it return
\* false, and it does not become valid again unless it is reassigned.
C10_HandleDoesNotOwn ==
    []C10_NoOwnerNoHandler /\ [][C10_InvalidStaysInvalid]_vars

\* Both handle variables point at a handler whose last owner is gone, and a
\* stop_io through one of them has returned false although the handler had
\* been started.
C10_Witness ==
    \E h \in Handlers :
        /\ owners[h] = 0
        /\ \A i \in Handles : handles[i] = h
        /\ ioh[h].started
        /\ op = "stop_io" /\ ret = FALSE

(* ----------------------------- send_to_all ---------------------------- *)

\* Largest number of entries held by the send_to_all object.
MaxEntries == 5

\* Variant of push_back that keeps one entry per handle value.
push_back_unique(ios, io) ==
    IF \E k \in DOMAIN ios : ios[k] = io THEN ios ELSE Append(ios, io)

\* m_io_intfs.push_back(io)
push_back(ios, io) == Append(ios, io)

\* Variant of erase_where that compares the stored pointers.
erase_where_raw(ios, io) == SelectSeq(ios, LAMBDA e : ~handle_eq_raw(e, io))

\* chops::erase_where(m_io_intfs, io): erase every element equal to io.
erase_where(ios, io) == SelectSeq(ios, LAMBDA e : ~handle_eq(e, io))

\* Variant of the send loop that ends at the first invalid handle.
RECURSIVE send_each_until_invalid(_, _, _)
send_each_until_invalid(ios, st, sent) ==
    IF ios = << >>
    THEN [ ioh |-> st, sent |-> sent ]
    ELSE LET p == lock(Head(ios)) IN
           IF p # NoHandler
           THEN send_each_until_invalid(Tail(ios), [ st EXCEPT ![p] = mock_send(@) ],
                                        Append(sent, p))
           ELSE [ ioh |-> st, sent |-> sent ]

\* for (auto io : m_io_intfs) { io.send(buf); }  The handle's send locks the
\* weak pointer, calls the handler's send when that succeeds and returns false
\* otherwise; the loop ignores the value.
RECURSIVE send_each(_, _, _)
send_each(ios, st, sent) ==
    IF ios = << >>
    THEN [ ioh |-> st, sent |-> sent ]
    ELSE LET p == lock(Head(ios)) IN
           IF p # NoHandler
           THEN send_each(Tail(ios), [ st EXCEPT ![p] = mock_send(@) ], Append(sent, p))
           ELSE send_each(Tail(ios), st, sent)

\* output_queue_stats tot { }
zero_stats == [ output_queue_size |-> 0, bytes_in_output_queue |-> 0 ]

\* for (auto io : m_io_intfs) { auto qs = io.get_output_queue_stats(); tot += qs; }
\* The handle's get_output_queue_stats throws on an invalid handle, and the
\* function is noexcept: the exception ends the program (std::terminate).
RECURSIVE total_stats(_, _)
total_stats(ios, tot) ==
    IF ios = << >>
    THEN [ err |-> "none", size |-> 0, stats |-> tot ]
    ELSE LET qs == get_output_queue_stats(Head(ios)) IN
           IF qs.err # "none"
           THEN [ err |-> "terminate", size |-> 0, stats |-> tot ]
           ELSE total_stats(Tail(ios),
                    [ output_queue_size |->
                          tot.output_queue_size + qs.val.output_queue_size,
                      bytes_in_output_queue |->
                          tot.bytes_in_output_queue + qs.val.bytes_in_output_queue ])

\* The result of a member function that returns nothing.
no_result == [ err |-> "none", size |-> 0, stats |-> zero_stats ]

\* The program has not been ended by std::terminate.
running == sta_ret.err # "terminate"

\* send_to_all::add_io_interface(io)
add_io_interface(io) ==
    /\ running
    /\ Len(m_io_intfs) < MaxEntries
    /\ m_io_intfs' = push_back(m_io_intfs, io)
    /\ sta_op' = "add"
    /\ sta_ret' = no_result
    /\ sent_to' = << >>
    /\ UNCHANGED thr_vars
    /\ UNCHANGED later_vars
    /\ UNCHANGED io_vars

\* send_to_all::remove_io_interface(io)
remove_io_interface(io) ==
    /\ running
    /\ m_io_intfs' = erase_where(m_io_intfs, io)
    /\ sta_op' = "remove"
    /\ sta_ret' = no_result
    /\ sent_to' = << >>
    /\ UNCHANGED thr_vars
    /\ UNCHANGED later_vars
    /\ UNCHANGED io_vars

\* send_to_all::send(buf), the three overloads end in the same loop
send_to_all_send ==
    /\ running
    /\ LET r == send_each(m_io_intfs, ioh, << >>) IN
         /\ ioh' = r.ioh
         /\ sent_to' = r.sent
    /\ sta_op' = "send"
    /\ sta_ret' = no_result
    /\ UNCHANGED m_io_intfs
    /\ UNCHANGED thr_vars
    /\ UNCHANGED later_vars
    /\ UNCHANGED <<owners, alive, handles, op, ret, calls, flips>>

\* send_to_all::size()
send_to_all_size ==
    /\ running
    /\ sta_ret' = [ no_result EXCEPT !.size = Len(m_io_intfs) ]
    /\ sta_op' = "size"
    /\ sent_to' = << >>
    /\ UNCHANGED m_io_intfs
    /\ UNCHANGED thr_vars
    /\ UNCHANGED later_vars
    /\ UNCHANGED io_vars

\* send_to_all::get_total_output_queue_stats()
get_total_output_queue_stats ==
    /\ running
    /\ sta_ret' = total_stats(m_io_intfs, zero_stats)
    /\ sta_op' = "stats"
    /\ sent_to' = << >>
    /\ UNCHANGED m_io_intfs
    /\ UNCHANGED thr_vars
    /\ UNCHANGED later_vars
    /\ UNCHANGED io_vars

\* One thread using a send_to_all object while the handlers' owners go away.
NextSta ==
    \/ \E io \in HandleValues : add_io_interface(io)
    \/ \E io \in HandleValues : remove_io_interface(io)
    \/ send_to_all_send
    \/ send_to_all_size
    \/ get_total_output_queue_stats
    \/ \E h \in Handlers : drop_owner(h)

SpecSta == Init /\ [][NextSta]_vars

(* ---------------------- send_to_all, several threads ------------------ *)

\* Largest number of entries held while several threads use the object.
MaxThrEntries == 2

\* Calls of add_io_interface that have begun and not yet pushed their entry.
pending_adds ==
    Cardinality({ t \in Threads : thr[t].op = "add" /\ thr[t].pc \in {"lock", "body"} })

\* The member functions of send_to_all.
StaOps == {"add", "remove", "send", "size", "stats"}

\* Thread t calls a member function; io is the argument of add and remove.
enter(t, o, io) ==
    /\ running
    /\ UNCHANGED later_vars
    /\ thr[t].pc = "idle"
    /\ (o = "add") => (Len(m_io_intfs) + pending_adds < MaxThrEntries)
    /\ (o \in {"add", "remove"}) \/ (io = NoHandler)
    /\ thr' = [ thr EXCEPT ![t] = [ idle_thread EXCEPT !.pc = "lock", !.op = o, !.arg = io ] ]
    /\ UNCHANGED <<m_mutex, removed>>
    /\ UNCHANGED sta_vars
    /\ UNCHANGED io_vars

\* Variant of the lock_guard constructor that does not wait for the mutex.
lock_guard_no_wait(t) ==
    /\ running
    /\ UNCHANGED later_vars
    /\ thr[t].pc = "lock"
    /\ m_mutex' = t
    /\ thr' = [ thr EXCEPT ![t].pc = "body", ![t].snap = m_io_intfs ]
    /\ UNCHANGED removed
    /\ UNCHANGED sta_vars
    /\ UNCHANGED io_vars

\* lock_guard gd { m_mutex }: returns once the mutex is this thread's.  snap
\* records the collection as it is at that instant.
lock_guard(t) ==
    /\ running
    /\ UNCHANGED later_vars
    /\ thr[t].pc = "lock"
    /\ m_mutex = NoThread
    /\ m_mutex' = t
    /\ thr' = [ thr EXCEPT ![t].pc = "body", ![t].snap = m_io_intfs ]
    /\ UNCHANGED removed
    /\ UNCHANGED sta_vars
    /\ UNCHANGED io_vars

\* add_io_interface, under the lock: m_io_intfs.push_back(io)
thread_add(t) ==
    /\ running
    /\ UNCHANGED later_vars
    /\ thr[t].pc = "body" /\ thr[t].op = "add"
    /\ m_io_intfs' = push_back(m_io_intfs, thr[t].arg)
    /\ removed' = removed \ {thr[t].arg}
    /\ thr' = [ thr EXCEPT ![t].pc = "unlock" ]
    /\ UNCHANGED <<m_mutex, sta_op, sta_ret, sent_to>>
    /\ UNCHANGED io_vars

\* remove_io_interface, under the lock: erase_where(m_io_intfs, io)
thread_remove(t) ==
    /\ running
    /\ UNCHANGED later_vars
    /\ thr[t].pc = "body" /\ thr[t].op = "remove"
    /\ m_io_intfs' = erase_where(m_io_intfs, thr[t].arg)
    /\ removed' = IF is_valid(thr[t].arg) THEN removed \cup {thr[t].arg} ELSE removed
    /\ thr' = [ thr EXCEPT ![t].pc = "unlock" ]
    /\ UNCHANGED <<m_mutex, sta_op, sta_ret, sent_to>>
    /\ UNCHANGED io_vars

\* send, under the lock: one turn of the loop over m_io_intfs, or its end.
thread_send(t) ==
    /\ running
    /\ UNCHANGED later_vars
    /\ thr[t].pc = "body" /\ thr[t].op = "send"
    /\ IF thr[t].idx < Len(m_io_intfs)
       THEN LET r == send_each(<< m_io_intfs[thr[t].idx + 1] >>, ioh, thr[t].sent) IN
              /\ ioh' = r.ioh
              /\ thr' = [ thr EXCEPT ![t].idx = @ + 1, ![t].sent = r.sent ]
       ELSE /\ ioh' = ioh
            /\ thr' = [ thr EXCEPT ![t].pc = "unlock" ]
    /\ UNCHANGED <<m_mutex, removed>>
    /\ UNCHANGED sta_vars
    /\ UNCHANGED <<owners, alive, handles, op, ret, calls, flips>>

\* size, under the lock: m_io_intfs.size()
thread_size(t) ==
    /\ running
    /\ UNCHANGED later_vars
    /\ thr[t].pc = "body" /\ thr[t].op = "size"
    /\ thr' = [ thr EXCEPT ![t].pc = "unlock", ![t].size = Len(m_io_intfs) ]
    /\ UNCHANGED <<m_mutex, removed>>
    /\ UNCHANGED sta_vars
    /\ UNCHANGED io_vars

\* get_total_output_queue_stats, under the lock: one turn of the loop, or its
\* end; on an invalid entry the exception ends the program.
thread_stats(t) ==
    /\ running
    /\ UNCHANGED later_vars
    /\ thr[t].pc = "body" /\ thr[t].op = "stats"
    /\ IF thr[t].idx < Len(m_io_intfs)
       THEN LET r == total_stats(<< m_io_intfs[thr[t].idx + 1] >>, thr[t].stats) IN
              /\ thr' = [ thr EXCEPT ![t].idx = @ + 1, ![t].stats = r.stats ]
              /\ sta_ret' = [ sta_ret EXCEPT !.err = r.err ]
       ELSE /\ thr' = [ thr EXCEPT ![t].pc = "unlock" ]
            /\ sta_ret' = sta_ret
    /\ UNCHANGED <<m_mutex, removed>>
    /\ UNCHANGED <<m_io_intfs, sta_op, sent_to>>
    /\ UNCHANGED io_vars

\* The lock_guard goes out of scope and the member function returns.
unlock(t) ==
    /\ running
    /\ UNCHANGED later_vars
    /\ thr[t].pc = "unlock"
    /\ m_mutex' = NoThread
    /\ thr' = [ thr EXCEPT ![t] = idle_thread ]
    /\ UNCHANGED removed
    /\ UNCHANGED sta_vars
    /\ UNCHANGED io_vars

\* Threads calling the member functions of one send_to_all in any interleaving,
\* while the handlers' owners go away.
NextStaThr ==
    \/ \E t \in Threads, o \in StaOps, io \in HandleValues : enter(t, o, io)
    \/ \E t \in Threads : lock_guard(t)
    \/ \E t \in Threads : thread_add(t)
    \/ \E t \in Threads : thread_remove(t)
    \/ \E t \in Threads : thread_send(t)
    \/ \E t \in Threads : thread_size(t)
    \/ \E t \in Threads : thread_stats(t)
    \/ \E t \in Threads : unlock(t)
    \/ \E h \in Handlers : drop_owner(h)

SpecStaThr == Init /\ [][NextStaThr]_vars

(* ----------------------- claims about send_to_all --------------------- *)

\* The entries of ios whose handle is valid, in order; a valid handle's value
\* is its handler.
valid_entries(ios) == SelectSeq(ios, is_valid)

\* Handler h is the referent of a valid entry.
has_valid_entry(h) == \E k \in DOMAIN m_io_intfs : m_io_intfs[k] = h /\ is_valid(h)

\* C11: send_to_all::send calls send once for each entry, in insertion order;
\* entries with an invalid handle are passed over without an error and the
\* entries after them still get the buffer; the handlers reached are exactly
\* those of the valid entries, and the collection is unchanged.
C11_SendReachesEveryValidEntry ==
    [][ send_to_all_send =>
          /\ sent_to' = valid_entries(m_io_intfs)
          /\ \A h \in Handlers :
                 ioh'[h] = IF has_valid_entry(h)
                           THEN [ ioh[h] EXCEPT !.send_called = TRUE ]
                           ELSE ioh[h]
          /\ sta_ret' = no_result
          /\ m_io_intfs' = m_io_intfs ]_vars

\* Five entries, the first one invalid, three of them valid: three sends made.
C11_Witness ==
    /\ sta_op = "send"
    /\ Len(m_io_intfs) = 5
    /\ ~is_valid(m_io_intfs[1])
    /\ Len(valid_entries(m_io_intfs)) = 3
    /\ sent_to = valid_entries(m_io_intfs)

\* The component-wise sum of the handlers' stats over a sequence of handlers.
RECURSIVE sum_stats(_)
sum_stats(hs) ==
    IF hs = << >>
    THEN zero_stats
    ELSE LET q == mock_get_output_queue_stats(ioh[Head(hs)])
             r == sum_stats(Tail(hs))
         IN  [ output_queue_size |-> q.output_queue_size + r.output_queue_size,
               bytes_in_output_queue |->
                   q.bytes_in_output_queue + r.bytes_in_output_queue ]

\* C12: get_total_output_queue_stats returns the component-wise sum of the
\* stats of the valid members and completes normally whatever the collection
\* holds; (0, 0) for an empty collection.
C12_TotalStatsOfValidMembers ==
    [][ get_total_output_queue_stats =>
          sta_ret' = [ no_result EXCEPT
                           !.stats = sum_stats(valid_entries(m_io_intfs)) ] ]_vars

\* C13: size() is the number of entries held; add_io_interface appends exactly
\* one entry, whether the handle is valid or already present; a handler going
\* away, send and get_total_output_queue_stats leave the collection as it is.
C13_SizeCountsEntries ==
    [][ /\ \A io \in HandleValues :
               add_io_interface(io) =>
                   /\ Len(m_io_intfs') = Len(m_io_intfs) + 1
                   /\ m_io_intfs' = m_io_intfs \o << io >>
        /\ send_to_all_size =>
               /\ sta_ret'.err = "none"
               /\ sta_ret'.size = Len(m_io_intfs)
               /\ m_io_intfs' = m_io_intfs
        /\ (send_to_all_send \/ get_total_output_queue_stats) =>
               m_io_intfs' = m_io_intfs
        /\ \A h \in Handlers : drop_owner(h) => m_io_intfs' = m_io_intfs ]_vars

\* size() has returned 5 for a collection that holds one handle twice and an
\* invalid handle.
C13_Witness ==
    /\ sta_op = "size"
    /\ sta_ret.size = 5
    /\ \E j, k \in DOMAIN m_io_intfs :
           j # k /\ m_io_intfs[j] = m_io_intfs[k] /\ is_valid(m_io_intfs[j])
    /\ \E k \in DOMAIN m_io_intfs : ~is_valid(m_io_intfs[k])

\* Thread t holds the lock_guard: it is between the constructor's return and
\* the end of the member function.
in_critical_section(t) == thr[t].pc \in {"body", "unlock"}

\* At most one thread is inside a member function's locked part, and it is the
\* one that holds m_mutex.
C14_MutualExclusion ==
    /\ \A t1, t2 \in Threads :
           (in_critical_section(t1) /\ in_critical_section(t2)) => (t1 = t2)
    /\ \A t \in Threads : in_critical_section(t) => (m_mutex = t)

\* While a thread reads the collection under the lock, the collection is what
\* it was when the lock was taken; a finished broadcast has visited every entry
\* of it, and sent only to referents of its entries.
C14_ReadersSeeOneInstant ==
    \A t \in Threads :
        (in_critical_section(t) /\ thr[t].op \in {"send", "size", "stats"}) =>
            /\ m_io_intfs = thr[t].snap
            /\ thr[t].idx <= Len(thr[t].snap)
            /\ (thr[t].op = "send" /\ thr[t].pc = "unlock") =>
                   thr[t].idx = Len(thr[t].snap)
            /\ \A k \in DOMAIN thr[t].sent :
                   \E j \in DOMAIN thr[t].snap : thr[t].snap[j] = thr[t].sent[k]

\* Each member function acts on the collection of the instant the lock was
\* taken, in one step; a broadcast's send goes to the next entry of that
\* collection and never to a handler whose handle has been removed.
C14_AtomicEffects ==
    \A t \in Threads :
        /\ thread_add(t) => m_io_intfs' = thr[t].snap \o << thr[t].arg >>
        /\ thread_remove(t) =>
               /\ m_io_intfs' = erase_where(thr[t].snap, thr[t].arg)
               /\ \A k \in DOMAIN m_io_intfs' : ~handle_eq(m_io_intfs'[k], thr[t].arg)
        /\ thread_size(t) => thr'[t].size = Len(thr[t].snap)
        /\ (thread_send(t) /\ thr'[t].sent # thr[t].sent) =>
               /\ thr'[t].sent = thr[t].sent \o << thr[t].snap[thr[t].idx + 1] >>
               /\ thr[t].snap[thr[t].idx + 1] \notin removed

\* C14: under any interleaving of threads calling add_io_interface,
\* remove_io_interface, send, size and get_total_output_queue_stats on one
\* send_to_all, the locked parts exclude one another, each call acts on the
\* collection as it is at one instant, and no handler whose handle was removed
\* before a broadcast gets that broadcast's buffer.
C14_OperationsAreAtomic ==
    /\ [](C14_MutualExclusion /\ C14_ReadersSeeOneInstant)
    /\ [][C14_AtomicEffects]_vars

\* One thread is in the middle of a broadcast, having sent to one handler, and
\* the other waits for the mutex to remove an entry; a handle has been removed
\* earlier.
C14_Witness ==
    /\ thr[1].pc = "body" /\ thr[1].op = "send"
    /\ Len(thr[1].sent) = 1 /\ thr[1].idx < Len(m_io_intfs)
    /\ thr[2].pc = "lock" /\ thr[2].op = "remove" /\ thr[2].arg = thr[1].sent[1]
    /\ removed # {}

(* --------------------------- net_entity_mock -------------------------- *)

\* Largest number of start() calls that return true in one run.
MaxStarts == 2

\* A default constructed std::error_code, which converts to false.
no_error == "success"

\* What the entity's thread does after the first sleep, the second sleep lying
\* between the last two: ios(io, 1, true); ef(io, message_handler_terminated);
\* ios(io, 0, false).  This variant makes the error callback last.
thread_callbacks_error_last ==
    << [ cb |-> "state_change", num |-> 1, starting |-> TRUE,  err |-> no_error ],
       [ cb |-> "state_change", num |-> 0, starting |-> FALSE, err |-> no_error ],
       [ cb |-> "error", num |-> 0, starting |-> FALSE,
         err |-> "message_handler_terminated" ] >>

\* This variant ends the handler without the error callback.
thread_callbacks_no_error ==
    << [ cb |-> "state_change", num |-> 1, starting |-> TRUE,  err |-> no_error ],
       [ cb |-> "state_change", num |-> 0, starting |-> FALSE, err |-> no_error ] >>

\* The calls of the lambda that start() runs in thr.
thread_callbacks ==
    << [ cb |-> "state_change", num |-> 1, starting |-> TRUE,  err |-> no_error ],
       [ cb |-> "error", num |-> 0, starting |-> FALSE,
         err |-> "message_handler_terminated" ],
       [ cb |-> "state_change", num |-> 0, starting |-> FALSE, err |-> no_error ] >>

\* net_entity_mock::iop, the handler the entity owns and reports.
iop == 1

\* The delimiters the tests start an entity's handlers with: none (variable
\* length messages), CR LF, LF.
Delims == {"", "\r\n", "\n"}

\* tcp_start_io: the start_io overload chosen by delim.empty().
tcp_start_io_overload(delim) ==
    IF delim = "" THEN "mf_sio_called" ELSE "delim_sio_called"

\* The thread function has returned and the thread has not been joined.
thread_finished == ne_thr = Len(thread_callbacks) + 1

\* net_entity_mock::is_started()
is_started ==
    /\ ne_caller = "ready"
    /\ ne_op' = "is_started"
    /\ ne_ret' = ne_started
    /\ UNCHANGED <<ne_started, ne_thr, ne_caller, ne_count, ne_delim, cb_log>>
    /\ UNCHANGED <<io_vars, sta_vars, thr_vars, acc_vars, util_vars>>

\* Variant of start() without the test of started.
start_unguarded(delim) ==
    /\ ne_caller = "ready"
    /\ ne_count.starts < MaxStarts
    /\ ne_op' = "start"
    /\ ne_started' = TRUE
    /\ ne_thr' = 1
    /\ ne_delim' = delim
    /\ ne_ret' = TRUE
    /\ ne_count' = [ ne_count EXCEPT !.starts = @ + 1 ]
    /\ UNCHANGED <<ne_caller, cb_log>>
    /\ UNCHANGED <<io_vars, sta_vars, thr_vars, acc_vars, util_vars>>

\* net_entity_mock::start(io_state_chg_func, err_func); the state change
\* callback starts io on the handle it is given, as tcp_start_io does with delim.
start(delim) ==
    /\ ne_caller = "ready"
    /\ ne_started \/ ne_count.starts < MaxStarts
    /\ ne_op' = "start"
    /\ IF ne_started
       THEN /\ ne_ret' = FALSE
            /\ UNCHANGED <<ne_started, ne_thr, ne_count, ne_delim>>
       ELSE /\ ne_started' = TRUE
            /\ ne_thr' = 1
            /\ ne_delim' = delim
            /\ ne_ret' = TRUE
            /\ ne_count' = [ ne_count EXCEPT !.starts = @ + 1 ]
    /\ UNCHANGED <<ne_caller, cb_log>>
    /\ UNCHANGED <<io_vars, sta_vars, thr_vars, acc_vars, util_vars>>

\* What the callback does with the handle io_interface_mock(iop) it is given:
\* the state change callback for started = true calls start_io on it.
callback_effect(c, st) ==
    LET p == lock(iop) IN
      IF c.cb = "state_change" /\ c.starting /\ p # NoHandler
      THEN [ st EXCEPT ![p] = mock_start_io(@, tcp_start_io_overload(ne_delim)).ioh ]
      ELSE st

\* The thread makes its next callback.
thread_step ==
    /\ ne_thr \in 1..Len(thread_callbacks)
    /\ cb_log' = Append(cb_log, [ start_no |-> ne_count.starts,
                                  call |-> thread_callbacks[ne_thr] ])
    /\ ioh' = callback_effect(thread_callbacks[ne_thr], ioh)
    /\ flips' = [ flips EXCEPT ![iop] = count_flips(@, ioh[iop], ioh'[iop]) ]
    /\ ne_thr' = ne_thr + 1
    /\ UNCHANGED <<ne_started, ne_caller, ne_op, ne_ret, ne_count, ne_delim>>
    /\ UNCHANGED <<owners, alive, handles, op, ret, calls>>
    /\ UNCHANGED <<sta_vars, thr_vars, acc_vars, util_vars>>

\* net_entity_mock::stop(), up to its return of false or to the call of join_thr()
stop ==
    /\ ne_caller = "ready"
    /\ IF ~ne_started
       THEN /\ ne_op' = "stop"
            /\ ne_ret' = FALSE
            /\ UNCHANGED <<ne_started, ne_caller>>
       ELSE /\ ne_started' = FALSE
            /\ ne_caller' = "joining"
            /\ UNCHANGED <<ne_op, ne_ret>>
    /\ UNCHANGED <<ne_thr, ne_count, ne_delim, cb_log>>
    /\ UNCHANGED <<io_vars, sta_vars, thr_vars, acc_vars, util_vars>>

\* Variant of join_thr() that returns while the thread is still running.
join_thr_no_wait ==
    /\ ne_caller = "joining"
    /\ ne_caller' = "ready"
    /\ ne_op' = "stop"
    /\ ne_ret' = TRUE
    /\ ne_count' = [ ne_count EXCEPT !.stops = @ + 1 ]
    /\ UNCHANGED <<ne_started, ne_thr, ne_delim, cb_log>>
    /\ UNCHANGED <<io_vars, sta_vars, thr_vars, acc_vars, util_vars>>

\* join_thr(): thr.join() returns when the thread function has returned; stop()
\* then returns true.
join_thr ==
    /\ ne_caller = "joining"
    /\ thread_finished
    /\ ne_thr' = 0
    /\ ne_caller' = "ready"
    /\ ne_op' = "stop"
    /\ ne_ret' = TRUE
    /\ ne_count' = [ ne_count EXCEPT !.stops = @ + 1 ]
    /\ UNCHANGED <<ne_started, ne_delim, cb_log>>
    /\ UNCHANGED <<io_vars, sta_vars, thr_vars, acc_vars, util_vars>>

\* One thread starting, querying and stopping a net_entity_mock while the
\* entity's own thread makes the callbacks.
NextEntity ==
    \/ is_started
    \/ \E delim \in Delims : start(delim)
    \/ thread_step
    \/ stop
    \/ join_thr

SpecEntity == Init /\ [][NextEntity]_vars

(* --------------------- claims about net_entity_mock ------------------- *)

\* What the entity and its handler look like from outside, apart from the
\* latest call and its return value.
entity_state == <<ne_started, ne_thr, ne_caller, ne_count, ne_delim, cb_log, ioh>>

\* started is true exactly between a start() that returned true and the next
\* stop() that returned true, as seen by the thread that makes the calls.
C15_StartedBetweenStartAndStop ==
    (ne_caller = "ready") =>
        /\ ne_started => (ne_count.starts = ne_count.stops + 1)
        /\ ~ne_started => (ne_count.starts = ne_count.stops)

\* What each call returns and changes.
C15_CallResults ==
    /\ \A d \in Delims :
           start(d) =>
               /\ ne_ret' = ~ne_started
               /\ ne_started'
               /\ ne_started => (entity_state' = entity_state)
    /\ stop =>
           /\ ~ne_started'
           /\ ~ne_started => (ne_op' = "stop" /\ ne_ret' = FALSE
                              /\ entity_state' = entity_state)
           /\ ne_started => (ne_caller' = "joining" /\ ne_op' = ne_op /\ ne_ret' = ne_ret)
    /\ join_thr => (ne_op' = "stop" /\ ne_ret' = TRUE /\ ~ne_started')
    /\ is_started => (ne_ret' = ne_started /\ entity_state' = entity_state)
    /\ (ne_started' # ne_started) => (stop \/ \E d \in Delims : start(d))

\* C15: start returns true exactly when the entity was not started and stop
\* returns true exactly when it was; is_started() is false before the first
\* start, true from a start that returned true to the next stop that returned
\* true, false after it; a rejected start or stop changes nothing.
C15_StartStopLifecycle ==
    /\ []C15_StartedBetweenStartAndStop
    /\ [][C15_CallResults]_vars

\* A start has been rejected on an entity that was started, stopped and started
\* again.
C15_Witness ==
    /\ ne_op = "start" /\ ne_ret = FALSE
    /\ ne_started
    /\ ne_count = [ starts |-> 2, stops |-> 1 ]

\* The kind of a logged callback.
callback_kind(e) ==
    IF e.call.cb = "error" THEN "error"
    ELSE IF e.call.starting THEN "started" ELSE "stopped"

\* The kinds of the callbacks of start number n, in the order they were made.
RECURSIVE kinds_of_start(_, _)
kinds_of_start(log, n) ==
    IF log = << >>
    THEN << >>
    ELSE IF Head(log).start_no = n
         THEN << callback_kind(Head(log)) >> \o kinds_of_start(Tail(log), n)
         ELSE kinds_of_start(Tail(log), n)

\* a is an initial part of b.
is_prefix(a, b) == Len(a) <= Len(b) /\ a = SubSeq(b, 1, Len(a))

C18_DrainedWhenStopped ==
    (ne_caller = "ready" /\ ~ne_started) =>
        /\ ne_thr = 0
        /\ \A n \in 1..ne_count.starts : Len(kinds_of_start(cb_log, n)) = 3

\* A callback is made only between a start that returned true and the return
\* of the stop that follows it.
C18_NoCallbackOutsideStart ==
    (cb_log' # cb_log) => (ne_started \/ ne_caller = "joining")

\* C18: when stop() returns true every callback of that start has completed,
\* and no state change or error callback is made after stop() has returned.
C18_StopWaitsForCallbacks ==
    /\ []C18_DrainedWhenStopped
    /\ [][C18_NoCallbackOutsideStart]_vars

\* stop() has returned true for the second time and all six callbacks are made.
C18_Witness ==
    /\ ne_op = "stop" /\ ne_ret = TRUE /\ ne_caller = "ready"
    /\ ne_count.stops = 2
    /\ Len(cb_log) = 6

\* C19: every handler termination (state change with started = false) comes
\* right after an error callback of the same start, whose error code is not the
\* zero code and is message_handler_terminated, the termination the mock plays.
C19_TerminationReported ==
    \A k \in DOMAIN cb_log :
        (callback_kind(cb_log[k]) = "stopped") =>
            /\ k > 1
            /\ cb_log[k - 1].start_no = cb_log[k].start_no
            /\ callback_kind(cb_log[k - 1]) = "error"
            /\ cb_log[k - 1].call.err # no_error
            /\ cb_log[k - 1].call.err = "message_handler_terminated"

\* A handler termination has been reported.
C19_Witness ==
    \E k \in DOMAIN cb_log : callback_kind(cb_log[k]) = "stopped"

(* -------------------------- TCP acceptor test ------------------------- *)

\* in_msg_set.size(): data messages written by each connector.
MsgsPerConn == 2

\* Longest message preamble given to make_msg_vec; the shortest is empty.
MaxPreamble == 1

\* Bytes that a framing adds to a body: the two byte header of
\* make_variable_len_msg (no delimiter), CR LF, or LF.
framing_size(delim) ==
    CASE delim = "\r\n" -> 2
      [] delim = "\n"   -> 1
      [] OTHER          -> 2

\* The k-th message of make_msg_vec(func, pre, body_char, num_msgs), k from 1:
\* func(make_body_buf(pre, body_char, k)), known here by its number and size.
in_msg(k) ==
    [ id |-> k, size |-> acc_test.pre + k + framing_size(acc_test.delim) ]

\* make_empty_body_msg(func)
empty_msg == [ id |-> 0, size |-> framing_size(acc_test.delim) ]

\* msg_hdlr::operator()(buf, io_intf, endp): what it returns, whether it
\* increments cnt, whether it sends the message back.
msg_hdlr(reply, msg) ==
    IF msg.size > 2
    THEN [ ret |-> TRUE,  counted |-> TRUE,  sent |-> reply ]
    ELSE [ ret |-> FALSE, counted |-> FALSE, sent |-> reply ]

\* The acceptor's active_handlers.
active_handlers == { c \in Conns : hd[c] \in {"started", "stopping"} }

\* on_state_change(handle, n, starting) as a log entry.
state_change_cb(c, n, starting) ==
    [ cb |-> "state_change", conn |-> c, num |-> n, starting |-> starting,
      err |-> no_error ]

\* on_error(handle, err) as a log entry.
error_cb(c, err) ==
    [ cb |-> "error", conn |-> c, num |-> 0, starting |-> FALSE, err |-> err ]

\* Variant of termination_cbs that reports the size before the removal.
termination_cbs_before_removal(c, err, active) ==
    << error_cb(c, err), state_change_cb(c, Cardinality(active), FALSE) >>

\* The handler of c terminates with err: error callback, removal from
\* active_handlers, state change callback with the new size.
termination_cbs(c, err, active) ==
    << error_cb(c, err), state_change_cb(c, Cardinality(active \ {c}), FALSE) >>

\* acceptor_test(in_msg_set, reply, interval, num_conns, delim, empty_msg) up
\* to acc_ptr->start(start_callback, shut_callback).
acc_start(reply, delim, pre) ==
    /\ acc_state = "created"
    /\ acc_state' = "started"
    /\ acc_test' = [ reply |-> reply, delim |-> delim, pre |-> pre ]
    /\ UNCHANGED <<conn, wire, back, hd, delivered, cnt, acc_log>>
    /\ UNCHANGED <<io_vars, sta_vars, thr_vars, entity_vars, util_vars>>

\* connector_func: connect(sock, endp_seq)
connect(c) ==
    /\ acc_state = "started"
    /\ conn[c].pc = "init"
    /\ conn' = [ conn EXCEPT ![c].pc = IF MsgsPerConn = 0 THEN "empty1" ELSE "write" ]
    /\ UNCHANGED <<acc_state, acc_test, wire, back, hd, delivered, cnt, acc_log>>
    /\ UNCHANGED <<io_vars, sta_vars, thr_vars, entity_vars, util_vars>>

\* The peer end of c's connection is closed.
closed_by_peer(c) ==
    \/ hd[c] = "stopped"
    \/ hd[c] = "none" /\ acc_state = "stopped"

\* connector_func: one write(sock, ...): the next message of in_msg_set, or one
\* of the two end-of-flow messages.  A write on a connection that the peer has
\* closed either is lost or throws.
connector_write(c, ok) ==
    /\ conn[c].pc \in {"write", "empty1", "empty2"}
    /\ ok \/ closed_by_peer(c)
    /\ LET msg == IF conn[c].pc = "write" THEN in_msg(conn[c].cnt + 1) ELSE empty_msg
           n   == IF conn[c].pc = "write" THEN conn[c].cnt + 1 ELSE conn[c].cnt
           nxt == CASE conn[c].pc = "empty1" -> "read_empty"
                    [] conn[c].pc = "empty2" -> "done"
                    [] OTHER -> IF acc_test.reply THEN "read"
                                ELSE IF n = MsgsPerConn THEN "empty1" ELSE "write"
       IN  IF ok
           THEN /\ wire' = IF closed_by_peer(c) THEN wire
                           ELSE [ wire EXCEPT ![c] = Append(@, msg) ]
                /\ conn' = [ conn EXCEPT ![c] = [ pc |-> nxt, cnt |-> n ] ]
           ELSE /\ wire' = wire
                /\ conn' = [ conn EXCEPT ![c].pc = "failed" ]
    /\ UNCHANGED <<acc_state, acc_test, back, hd, delivered, cnt, acc_log>>
    /\ UNCHANGED <<io_vars, sta_vars, thr_vars, entity_vars, util_vars>>

\* connector_func: read(sock, ...) of a reply of the size of the message just
\* written; it blocks until the bytes are there and throws when the peer has
\* closed the connection before sending them.
connector_read(c) ==
    /\ conn[c].pc \in {"read", "read_empty"}
    /\ back[c] # << >> \/ closed_by_peer(c)
    /\ IF back[c] # << >>
       THEN /\ back' = [ back EXCEPT ![c] = Tail(@) ]
            /\ conn' = [ conn EXCEPT ![c].pc =
                           IF conn[c].pc = "read_empty" THEN "empty2"
                           ELSE IF conn[c].cnt = MsgsPerConn THEN "empty1" ELSE "write" ]
       ELSE /\ back' = back
            /\ conn' = [ conn EXCEPT ![c].pc = "failed" ]
    /\ UNCHANGED <<acc_state, acc_test, wire, hd, delivered, cnt, acc_log>>
    /\ UNCHANGED <<io_vars, sta_vars, thr_vars, entity_vars, util_vars>>

\* The accept loop takes c's connection: a handler is constructed and put into
\* active_handlers, and on_state_change(handle, size, true) runs start_cb,
\* which calls start_io on the handle.
accept(c) ==
    /\ acc_state = "started"
    /\ conn[c].pc # "init"
    /\ hd[c] = "none"
    /\ hd' = [ hd EXCEPT ![c] = "started" ]
    /\ acc_log' = Append(acc_log,
                     state_change_cb(c, Cardinality(active_handlers \cup {c}), TRUE))
    /\ UNCHANGED <<acc_state, acc_test, conn, wire, back, delivered, cnt>>
    /\ UNCHANGED <<io_vars, sta_vars, thr_vars, entity_vars, util_vars>>

\* Variant of the read loop that runs whatever the state of the handler.
read_dispatch_any_state(c) ==
    /\ wire[c] # << >>
    /\ LET msg == Head(wire[c])
           r   == msg_hdlr(acc_test.reply, msg)
       IN  /\ wire' = [ wire EXCEPT ![c] = Tail(@) ]
           /\ delivered' = IF r.counted THEN [ delivered EXCEPT ![c] = Append(@, msg.id) ]
                           ELSE delivered
           /\ cnt' = IF r.counted THEN cnt + 1 ELSE cnt
           /\ back' = IF r.sent THEN [ back EXCEPT ![c] = Append(@, msg) ] ELSE back
           /\ hd' = IF r.ret THEN hd ELSE [ hd EXCEPT ![c] = "stopping" ]
    /\ UNCHANGED <<acc_state, acc_test, conn, acc_log>>
    /\ UNCHANGED <<io_vars, sta_vars, thr_vars, entity_vars, util_vars>>

\* The read loop of a started handler: the next complete message is passed to
\* the message handler; when that returns false no further read is issued.
read_dispatch(c) ==
    /\ hd[c] = "started"
    /\ wire[c] # << >>
    /\ LET msg == Head(wire[c])
           r   == msg_hdlr(acc_test.reply, msg)
       IN  /\ wire' = [ wire EXCEPT ![c] = Tail(@) ]
           /\ delivered' = IF r.counted THEN [ delivered EXCEPT ![c] = Append(@, msg.id) ]
                           ELSE delivered
           /\ cnt' = IF r.counted THEN cnt + 1 ELSE cnt
           /\ back' = IF r.sent THEN [ back EXCEPT ![c] = Append(@, msg) ] ELSE back
           /\ hd' = IF r.ret THEN hd ELSE [ hd EXCEPT ![c] = "stopping" ]
    /\ UNCHANGED <<acc_state, acc_test, conn, acc_log>>
    /\ UNCHANGED <<io_vars, sta_vars, thr_vars, entity_vars, util_vars>>

\* A handler whose message handler returned false closes its socket and the
\* acceptor reports it.
handler_terminated(c) ==
    /\ hd[c] = "stopping"
    /\ hd' = [ hd EXCEPT ![c] = "stopped" ]
    /\ acc_log' = acc_log \o termination_cbs(c, "message_handler_terminated", active_handlers)
    /\ UNCHANGED <<acc_state, acc_test, conn, wire, back, delivered, cnt>>
    /\ UNCHANGED <<io_vars, sta_vars, thr_vars, entity_vars, util_vars>>

\* The callbacks of stop() for the handlers cs, in turn.
RECURSIVE stop_cbs(_, _)
stop_cbs(cs, active) ==
    IF cs = << >>
    THEN << >>
    ELSE IF Head(cs) \in active
         THEN termination_cbs(Head(cs),
                  IF hd[Head(cs)] = "stopping" THEN "message_handler_terminated"
                  ELSE "io_cancelled", active)
              \o stop_cbs(Tail(cs), active \ {Head(cs)})
         ELSE stop_cbs(Tail(cs), active)

\* acc_ptr->stop(): stop_io on every active handler, their error callbacks
\* drain, the listening socket is closed.
acc_stop ==
    /\ acc_state = "started"
    /\ acc_state' = "stopped"
    /\ hd' = [ c \in Conns |-> IF c \in active_handlers THEN "stopped" ELSE hd[c] ]
    /\ acc_log' = acc_log \o stop_cbs(<< 1, 2 >>, active_handlers)
    /\ UNCHANGED <<acc_test, conn, wire, back, delivered, cnt>>
    /\ UNCHANGED <<io_vars, sta_vars, thr_vars, entity_vars, util_vars>>

\* acceptor_test with two connectors, for every reply mode, framing and
\* preamble length.
NextAcc ==
    \/ \E reply \in BOOLEAN, delim \in Delims, pre \in 0..MaxPreamble :
           acc_start(reply, delim, pre)
    \/ \E c \in Conns : connect(c)
    \/ \E c \in Conns, ok \in BOOLEAN : connector_write(c, ok)
    \/ \E c \in Conns : connector_read(c)
    \/ \E c \in Conns : accept(c)
    \/ \E c \in Conns : read_dispatch(c)
    \/ \E c \in Conns : handler_terminated(c)
    \/ acc_stop

SpecAcc == Init /\ [][NextAcc]_vars

(* -------------------- claims about the acceptor test ------------------ *)

\* The state change callback of c's handler with this started flag has run.
state_change_seen(c, starting) ==
    \E i \in 1..Len(acc_log) :
        /\ acc_log[i].cb = "state_change"
        /\ acc_log[i].conn = c
        /\ acc_log[i].starting = starting

\* This step passes a message of c's connection to the message handler.
dispatched(c) == Len(wire'[c]) < Len(wire[c])

C17_NothingBeforeFirstConnection ==
    (acc_state = "started" /\ \A c \in Conns : conn[c].pc = "init")
        => /\ acc_log = << >>
           /\ cnt = 0
           /\ \A c \in Conns : delivered[c] = << >>

C17_DispatchInsideLifetime ==
    \A c \in Conns :
        dispatched(c) => /\ state_change_seen(c, TRUE)
                         /\ ~state_change_seen(c, FALSE)

\* C17: a message is passed to a handler's message handler only after that
\* handler's state change callback with started = true has run and before its
\* state change callback with started = false; while the acceptor is started
\* and no connector has connected, no state change callback has run and no
\* message has been delivered.
C17_NoDispatchOutsideLifetime ==
    []C17_NothingBeforeFirstConnection /\ [][C17_DispatchInsideLifetime]_vars

\* A handler that delivered messages has had both its state change callbacks
\* while a message of its connection is still unread, and another connection
\* has written before it was accepted.
C17_Witness ==
    \E c, d \in Conns :
        /\ delivered[c] # << >>
        /\ state_change_seen(c, FALSE)
        /\ wire[c] # << >>
        /\ hd[d] = "none"
        /\ wire[d] # << >>

\* connector_func has returned or has thrown.
connector_finished(c) == conn[c].pc \in {"done", "failed"}

\* The numbers of the messages of in_msg_set, in the order written.
in_msg_ids == [ k \in 1..MsgsPerConn |-> k ]

\* C20: every message of in_msg_set written by a connector is delivered to the
\* message handler once and in the order written: what a connection has
\* delivered is always a prefix of what was written, and once all connectors
\* have finished (the acceptor not yet stopped) every connection has delivered
\* the whole set and the count is num_conns times the size of the set.
C20_EveryMessageDeliveredOnce ==
    /\ \A c \in Conns : is_prefix(delivered[c], in_msg_ids)
    /\ (acc_state = "started" /\ \A c \in Conns : connector_finished(c))
           => /\ \A c \in Conns : delivered[c] = in_msg_ids
              /\ cnt = Cardinality(Conns) * MsgsPerConn

(* -------------------------- message utilities ------------------------- *)

\* Largest num_body_chars of the short bodies; the long ones are taken around
\* the sizes where a header byte carries.
MaxBodyChars == 2

\* How many messages one test_counter counts.
MaxCounted == 2

\* std::numeric_limits<std::uint16_t>::max()
uint16_max == 65535

\* A buffer is a sequence of runs [b |-> byte, n |-> count], n > 0, two
\* neighbouring runs having different bytes: the bytes themselves, written
\* so that a buffer of 65535 bytes is as small as one of 2.
append_run(buf, r) ==
    IF r.n = 0 THEN buf
    ELSE IF buf # << >> /\ buf[Len(buf)].b = r.b
         THEN [ buf EXCEPT ![Len(buf)].n = @ + r.n ]
         ELSE Append(buf, r)

\* mutable_shared_buffer::append(data, size)
RECURSIVE append(_, _)
append(buf, more) ==
    IF more = << >> THEN buf
    ELSE append(append_run(buf, Head(more)), Tail(more))

\* mutable_shared_buffer(data, size) of the bytes bs
RECURSIVE shared_buffer(_)
shared_buffer(bs) ==
    IF bs = << >> THEN << >>
    ELSE append(<< [ b |-> Head(bs), n |-> 1 ] >>, shared_buffer(Tail(bs)))

\* buf.size()
RECURSIVE size(_)
size(buf) == IF buf = << >> THEN 0 ELSE Head(buf).n + size(Tail(buf))

\* *(buf.data() + i)
RECURSIVE byte_at(_, _)
byte_at(buf, i) ==
    IF i < Head(buf).n THEN Head(buf).b ELSE byte_at(Tail(buf), i - Head(buf).n)

\* The bytes of buf from the k-th on.
RECURSIVE drop(_, _)
drop(buf, k) ==
    IF k = 0 \/ buf = << >> THEN buf
    ELSE IF k < Head(buf).n
         THEN << [ Head(buf) EXCEPT !.n = @ - k ] >> \o Tail(buf)
         ELSE drop(Tail(buf), k - Head(buf).n)

\* The first k bytes of buf.
RECURSIVE take(_, _)
take(buf, k) ==
    IF k = 0 \/ buf = << >> THEN << >>
    ELSE IF k < Head(buf).n
         THEN << [ Head(buf) EXCEPT !.n = k ] >>
         ELSE << Head(buf) >> \o take(Tail(buf), k - Head(buf).n)

\* make_body_buf(pre, body_char, num_body_chars)
make_body_buf(pre, body_char, num_body_chars) ==
    append(shared_buffer(pre), << [ b |-> body_char, n |-> num_body_chars ] >>)

\* static_cast<std::uint16_t>(n)
uint16(n) == n % 65536

\* The two bytes of a std::uint16_t in memory, on a little or big endian host.
to_memory(v, le) == IF le THEN << v % 256, v \div 256 >> ELSE << v \div 256, v % 256 >>

\* The std::uint16_t that has these two bytes in memory.
from_memory(bs, le) == IF le THEN bs[1] + 256 * bs[2] ELSE 256 * bs[1] + bs[2]

\* boost::endian::native_to_big and big_to_native of a std::uint16_t: the bytes
\* swapped on a little endian host.
native_to_big(v, le) == IF le THEN (v % 256) * 256 + v \div 256 ELSE v

big_to_native(v, le) == native_to_big(v, le)

\* make_variable_len_msg(body), past its assert.
make_variable_len_msg(body, le) ==
    append(shared_buffer(to_memory(native_to_big(uint16(size(body)), le), le)), body)

\* make_cr_lf_text_msg(body)
make_cr_lf_text_msg(body, le) == append(body, shared_buffer(<< 13, 10 >>))

\* Variant of make_lf_text_msg that ends the message with the body.
make_lf_text_msg_bare(body, le) == append(body, << >>)

\* make_lf_text_msg(body)
make_lf_text_msg(body, le) == append(body, shared_buffer(<< 10 >>))

\* decode_variable_len_msg_hdr(buf_ptr, sz), past its assert (sz == 2).
decode_variable_len_msg_hdr(hdr_bytes, le) ==
    big_to_native(from_memory(hdr_bytes, le), le)

\* The message preambles: none, "H", "Ha".
Preambles == { << >>, << 72 >>, << 72, 97 >> }

\* The body characters: 'Q', 'Z'.
BodyChars == { 81, 90 }

\* The body lengths: short ones, and those around 256 and 65536.
BodyCounts ==
    (0..MaxBodyChars) \cup {254, 255, 256} \cup {uint16_max - 2, uint16_max - 1, uint16_max}

MsgFuncs == {"variable_len", "cr_lf", "lf"}

\* func(body), for the message builder passed as func.
call_func(func, body, le) ==
    CASE func = "variable_len" -> make_variable_len_msg(body, le)
      [] func = "cr_lf" -> make_cr_lf_text_msg(body, le)
      [] OTHER -> make_lf_text_msg(body, le)

\* make_empty_body_msg(func): func( chops::mutable_shared_buffer{ } )
make_empty_body_msg(func, le) == call_func(func, shared_buffer(<< >>), le)

\* A body is made; the counter of the message handler is kept.
build_body(pre, body_char, num_body_chars, le) ==
    /\ mk' = [ stage |-> "body", le |-> le,
               body |-> make_body_buf(pre, body_char, num_body_chars),
               func |-> "none", msg |-> << >>, decoded |-> -1, reply |-> FALSE,
               ret |-> FALSE, sent |-> << >>, cnt |-> mk.cnt ]
    /\ UNCHANGED <<q_mutex, rp>>
    /\ UNCHANGED <<io_vars, sta_vars, thr_vars, entity_vars, acc_vars>>

\* One of the three message builders is called with the body.  Where the
\* assert of make_variable_len_msg is false the program is aborted, or, in a
\* build with NDEBUG, goes on.
build_msg(func, ndebug) ==
    /\ mk.stage = "body"
    /\ ndebug \/ (func = "variable_len" /\ ~(size(mk.body) < uint16_max))
    /\ mk' = IF ndebug
             THEN [ mk EXCEPT !.stage = "msg", !.func = func,
                      !.msg = CASE func = "variable_len" -> make_variable_len_msg(mk.body, mk.le)
                                [] func = "cr_lf" -> make_cr_lf_text_msg(mk.body, mk.le)
                                [] OTHER -> make_lf_text_msg(mk.body, mk.le) ]
             ELSE [ mk EXCEPT !.stage = "aborted", !.func = func ]
    /\ UNCHANGED <<q_mutex, rp>>
    /\ UNCHANGED <<io_vars, sta_vars, thr_vars, entity_vars, acc_vars>>

\* The header of a variable length message is decoded.
decode_hdr ==
    /\ mk.stage = "msg"
    /\ mk.func = "variable_len"
    /\ mk.decoded = -1
    /\ mk' = [ mk EXCEPT !.decoded =
                 decode_variable_len_msg_hdr(
                     << byte_at(mk.msg, 0), byte_at(mk.msg, 1) >>, mk.le) ]
    /\ UNCHANGED <<q_mutex, rp>>
    /\ UNCHANGED <<io_vars, sta_vars, thr_vars, entity_vars, acc_vars>>

\* The message is passed to a msg_hdlr(reply, cnt), with a handle whose send
\* records the buffer it was given.
handle_msg(reply) ==
    /\ mk.stage = "msg"
    /\ mk.cnt < MaxCounted
    /\ LET r == msg_hdlr(reply, [ id |-> 0, size |-> size(mk.msg) ])
       IN  mk' = [ mk EXCEPT !.stage = "handled", !.reply = reply, !.ret = r.ret,
                     !.sent = IF r.sent THEN mk.msg ELSE << >>,
                     !.cnt = IF r.counted THEN @ + 1 ELSE @ ]
    /\ UNCHANGED <<q_mutex, rp>>
    /\ UNCHANGED <<io_vars, sta_vars, thr_vars, entity_vars, acc_vars>>

\* The tests of the message utilities: bodies of all lengths and preambles are
\* built into messages of the three framings, decoded and handled.
NextMsg ==
    \/ \E pre \in Preambles, c \in BodyChars, n \in BodyCounts, le \in BOOLEAN :
           build_body(pre, c, n, le)
    \/ \E func \in MsgFuncs, ndebug \in BOOLEAN : build_msg(func, ndebug)
    \/ decode_hdr
    \/ \E reply \in BOOLEAN : handle_msg(reply)

SpecMsg == Init /\ [][NextMsg]_vars

(* ----------------- claims about the message utilities ----------------- *)

\* A message builder has been called with the body.
msg_built(func) == mk.func = func /\ mk.stage \in {"msg", "handled", "aborted"}

\* C21: for every body of fewer than 2^16 bytes, make_variable_len_msg builds,
\* with no assertion failure, a message of size(body) + 2 bytes whose first two
\* bytes are the size as a big endian 16 bit number and whose other bytes are
\* the body, and decode_variable_len_msg_hdr of the two bytes is the size.
C21_VariableLenRoundTrip ==
    (msg_built("variable_len") /\ size(mk.body) < 65536)
        => /\ mk.stage # "aborted"
           /\ size(mk.msg) = size(mk.body) + 2
           /\ byte_at(mk.msg, 0) = size(mk.body) \div 256
           /\ byte_at(mk.msg, 1) = size(mk.body) % 256
           /\ drop(mk.msg, 2) = mk.body
           /\ mk.decoded # -1 => mk.decoded = size(mk.body)

C29_DelimiterAppended ==
    /\ msg_built("cr_lf")
          => /\ size(mk.msg) = size(mk.body) + 2
             /\ take(mk.msg, size(mk.body)) = mk.body
             /\ byte_at(mk.msg, size(mk.body)) = 13
             /\ byte_at(mk.msg, size(mk.body) + 1) = 10
    /\ msg_built("lf")
          => /\ size(mk.msg) = size(mk.body) + 1
             /\ take(mk.msg, size(mk.body)) = mk.body
             /\ byte_at(mk.msg, size(mk.body)) = 10

C29_BodyNotModified ==
    (mk.stage = "body" /\ mk'.stage # "body") => mk'.body = mk.body

\* C29: make_cr_lf_text_msg(body) is the body followed by 0x0D 0x0A and
\* make_lf_text_msg(body) is the body followed by 0x0A, nothing else added,
\* the body bytes as they were, and the body given is left as it was.
C29_TextFramingAppendsDelimiter ==
    []C29_DelimiterAppended /\ [][C29_BodyNotModified]_vars

\* An LF message has been built of a body with a preamble and 255 characters.
C29_Witness ==
    /\ msg_built("lf")
    /\ Len(mk.body) = 2
    /\ size(mk.body) = 256
    /\ size(mk.msg) = 257

\* C25: a msg_hdlr made with reply = true returns true for every message, the
\* message with an empty body among them, and calls send with the message.
C25_ReplyAlwaysTrue ==
    (mk.stage = "handled" /\ mk.reply) => (mk.ret /\ mk.sent = mk.msg)

\* What C26 says of every call: with reply = false, a message with a body is
\* answered with true and counted once, the message with an empty body is
\* answered with false and not counted.
C26_CountsMessagesWithBody ==
    (mk.stage = "msg" /\ mk'.stage = "handled" /\ ~mk'.reply)
        => IF size(mk.body) > 0
           THEN mk'.ret /\ mk'.cnt = mk.cnt + 1
           ELSE ~mk'.ret /\ mk'.cnt = mk.cnt

\* C26: a msg_hdlr made with reply = false returns true and adds one to its
\* counter for each message with a body, returns false and leaves the counter
\* for the message with an empty body, and never calls send.
C26_OneWayHandler ==
    /\ []((mk.stage = "handled" /\ ~mk.reply) => mk.sent = << >>)
    /\ [][C26_CountsMessagesWithBody]_vars

\* C27: in each of the three framings msg_hdlr takes a message for the end of
\* the flow (returns false, does not count it) if and only if its body is
\* empty, whatever the length of a non-empty body and whatever its preamble.
C27_EndOfFlowIffEmptyBody ==
    [][(mk.stage = "msg" /\ mk'.stage = "handled")
          => /\ mk'.ret <=> size(mk.body) > 0
             /\ mk'.cnt = mk.cnt + (IF size(mk.body) > 0 THEN 1 ELSE 0)]_vars

(* ---------------- send_to_all over handlers with a queue -------------- *)

\* The handler that thread t's loop is at, NoHandler when the entry is invalid
\* or the loop is past the last entry.
loop_handler(t) ==
    IF thr[t].idx < Len(m_io_intfs) THEN lock(m_io_intfs[thr[t].idx + 1]) ELSE NoHandler

\* Thread t is in the loop of send or get_total_output_queue_stats.
in_loop(t) == thr[t].pc = "body" /\ thr[t].op \in {"send", "stats"}

\* The handler's send or get_output_queue_stats, called by the loop for a valid
\* entry, takes the lock of the handler's output queue.
output_queue_lock(t) ==
    /\ running
    /\ in_loop(t)
    /\ loop_handler(t) # NoHandler
    /\ q_mutex[loop_handler(t)] = NoThread
    /\ q_mutex' = [ q_mutex EXCEPT ![loop_handler(t)] = t ]
    /\ thr' = [ thr EXCEPT ![t].pc = "queue", ![t].arg = loop_handler(t) ]
    /\ UNCHANGED <<mk, rp>>
    /\ UNCHANGED <<m_mutex, removed>>
    /\ UNCHANGED <<io_vars, sta_vars, entity_vars, acc_vars>>

\* A thread that holds no lock calls send through a handle of its own.
handle_send_lock(t, io) ==
    /\ running
    /\ thr[t].pc = "idle"
    /\ lock(io) # NoHandler
    /\ q_mutex[lock(io)] = NoThread
    /\ q_mutex' = [ q_mutex EXCEPT ![lock(io)] = t ]
    /\ thr' = [ thr EXCEPT ![t] = [ idle_thread EXCEPT !.pc = "queue", !.op = "direct",
                                                     !.arg = lock(io) ] ]
    /\ UNCHANGED <<mk, rp>>
    /\ UNCHANGED <<m_mutex, removed>>
    /\ UNCHANGED <<io_vars, sta_vars, entity_vars, acc_vars>>

\* Under the queue's lock the buffer is enqueued, or the queue's statistics are
\* read; the lock is released and the call returns to the loop or the caller.
output_queue_unlock(t) ==
    /\ running
    /\ thr[t].pc = "queue"
    /\ q_mutex' = [ q_mutex EXCEPT ![thr[t].arg] = NoThread ]
    /\ ioh' = IF thr[t].op = "stats" THEN ioh
              ELSE [ ioh EXCEPT ![thr[t].arg] = mock_send(@) ]
    /\ thr' = CASE thr[t].op = "direct" -> [ thr EXCEPT ![t] = idle_thread ]
                [] thr[t].op = "send" ->
                     [ thr EXCEPT ![t].pc = "body", ![t].arg = NoHandler, ![t].idx = @ + 1,
                                  ![t].sent = Append(@, thr[t].arg) ]
                [] OTHER ->
                     [ thr EXCEPT ![t].pc = "body", ![t].arg = NoHandler, ![t].idx = @ + 1,
                                  ![t].stats = total_stats(<< thr[t].arg >>, @).stats ]
    /\ UNCHANGED <<mk, rp>>
    /\ UNCHANGED <<m_mutex, removed>>
    /\ UNCHANGED <<owners, alive, handles, op, ret, calls, flips>>
    /\ UNCHANGED <<sta_vars, entity_vars, acc_vars>>

\* A turn of the loop at an invalid entry (send goes on, the exception of
\* get_output_queue_stats ends the program), or the end of the loop.
loop_turn_without_handler(t) ==
    /\ running
    /\ in_loop(t)
    /\ loop_handler(t) = NoHandler
    /\ IF thr[t].idx < Len(m_io_intfs)
       THEN /\ thr' = [ thr EXCEPT ![t].idx = @ + 1 ]
            /\ sta_ret' = IF thr[t].op = "stats"
                          THEN [ sta_ret EXCEPT !.err = "terminate" ] ELSE sta_ret
       ELSE /\ thr' = [ thr EXCEPT ![t].pc = "unlock" ]
            /\ sta_ret' = sta_ret
    /\ UNCHANGED <<util_vars, m_mutex, removed>>
    /\ UNCHANGED <<m_io_intfs, sta_op, sent_to>>
    /\ UNCHANGED <<io_vars, entity_vars, acc_vars>>

\* Threads that add handles to one send_to_all, broadcast and ask for the
\* statistics, and threads that send through a handle directly.
NextStaQueue ==
    \/ \E t \in Threads, o \in {"add", "send", "stats"}, io \in HandleValues : enter(t, o, io)
    \/ \E t \in Threads : lock_guard(t)
    \/ \E t \in Threads : thread_add(t)
    \/ \E t \in Threads : output_queue_lock(t)
    \/ \E t \in Threads, io \in HandleValues : handle_send_lock(t, io)
    \/ \E t \in Threads : output_queue_unlock(t)
    \/ \E t \in Threads : loop_turn_without_handler(t)
    \/ \E t \in Threads : unlock(t)

SpecStaQueue == Init /\ [][NextStaQueue]_vars

\* The number of locks that thread t holds.
held_locks(t) ==
    (IF m_mutex = t THEN 1 ELSE 0) + Cardinality({ h \in Handlers : q_mutex[h] = t })

\* C22: no thread holds two mutexes at once; while a thread holds the mutex of
\* send_to_all it is not inside an operation that holds the lock of a
\* handler's output queue.
C22_NeverTwoLocks ==
    \A t \in Threads : held_locks(t) <= 1

(* ------------------- handler counts in state changes ------------------ *)

\* The net_entity_mock test and the acceptor test, each run on its own.
NextCounts ==
    \/ acc_state = "created" /\ NextEntity
    \/ ne_op = "none" /\ ne_count.starts = 0 /\ NextAcc

SpecCounts == Init /\ [][NextCounts]_vars

\* The state change callbacks among the acceptor's callbacks, in order.
state_changes(log) == SelectSeq(log, LAMBDA e : e.cb = "state_change")

\* The net_entity_mock stands for a connector: 1 with started = true, then 0.
C23_EntityCounts ==
    \A i \in 1..Len(cb_log) :
        cb_log[i].call.cb = "state_change"
            => cb_log[i].call.num = (IF cb_log[i].call.starting THEN 1 ELSE 0)

\* While no handler has terminated the k-th accepted connection reports k, and
\* once stop() has returned the latest count reported is 0.
C23_AcceptorCounts ==
    LET sc == state_changes(acc_log) IN
      /\ (\A i \in 1..Len(sc) : sc[i].starting) => \A i \in 1..Len(sc) : sc[i].num = i
      /\ (acc_state = "stopped" /\ sc # << >>) => sc[Len(sc)].num = 0

\* The state change callbacks of a step report the size of active_handlers as
\* it is after each insertion or removal: the last one the size after the step,
\* the ones before it, one handler more each.
C23_CountIsSizeAtCallback ==
    LET old == state_changes(acc_log)
        new == state_changes(acc_log')
    IN  \A i \in (Len(old) + 1)..Len(new) :
            new[i].num = Cardinality(active_handlers') + (Len(new) - i)

\* C23: the count given to a state change callback is the size of the set of
\* active handlers at that moment, after the insertion for started = true and
\* after the removal for started = false: 1 then 0 for a connector, k for the
\* k-th connection of an acceptor none of whose handlers has terminated, and 0
\* is the latest count when the acceptor's stop() has returned.
C23_CountIsActiveSize ==
    [](C23_EntityCounts /\ C23_AcceptorCounts) /\ [][C23_CountIsSizeAtCallback]_vars

\* Two connections were accepted, the second reported 2, one handler terminated
\* by itself and stop() took down the other.
C23_Witness ==
    /\ acc_state = "stopped"
    /\ \E i \in 1..Len(acc_log) : acc_log[i].cb = "state_change" /\ acc_log[i].num = 2
    /\ \E i \in 1..Len(acc_log) : acc_log[i].err = "message_handler_terminated"
    /\ \E i \in 1..Len(acc_log) : acc_log[i].err = "io_cancelled"

(* ------------------------ end-of-flow handshake ----------------------- *)

\* acceptor_test in the order of its statements: stop() is called once every
\* connector's future has given its value.
NextAccTest ==
    \/ \E reply \in BOOLEAN, delim \in Delims, pre \in 0..MaxPreamble :
           acc_start(reply, delim, pre)
    \/ \E c \in Conns : connect(c)
    \/ \E c \in Conns, ok \in BOOLEAN : connector_write(c, ok)
    \/ \E c \in Conns : connector_read(c)
    \/ \E c \in Conns : accept(c)
    \/ \E c \in Conns : read_dispatch(c)
    \/ \E c \in Conns : handler_terminated(c)
    \/ (\A c \in Conns : conn[c].pc = "done") /\ acc_stop

\* Every thread of the test goes on while it can: the connectors, and the
\* reactor thread with its accepts, reads and terminations.
SpecAccLive ==
    /\ Init
    /\ [][NextAccTest]_vars
    /\ \A c \in Conns :
          /\ WF_vars(connect(c))
          /\ WF_vars(\E ok \in BOOLEAN : connector_write(c, ok))
          /\ WF_vars(connector_read(c))
          /\ WF_vars(accept(c))
          /\ WF_vars(read_dispatch(c))
          /\ WF_vars(handler_terminated(c))

\* C24: the end-of-flow handshake terminates: in one-way and in two-way mode
\* every connector that has connected comes to the end of connector_func,
\* having written the empty message, read its echo and written it again, and
\* sets its promise to the number of messages it sent.
C24_HandshakeCompletes ==
    \A c \in Conns :
        (conn[c].pc # "init") ~> (conn[c].pc = "done" /\ conn[c].cnt = MsgsPerConn)

(* -------------------- claims about remove_io_interface ---------------- *)

\* The entries of ios that are not equal to io, in their order.
others(ios, io) == SelectSeq(ios, LAMBDA e : ~handle_eq(e, io))

MaxRepeat == 5

\* Variant of repeat that counts its invocations from one.
repeat_index_from_one(k) == k + 1

\* The index that repeat passes at its k-th invocation of f, k counted from 0.
repeat_index(k) == k

\* repeat goes on to another invocation after k of n.
repeat_more(k, n) == k < n

\* The functions given to repeat: myfunc_a (takes no index), myfunc_b (takes
\* the index) and the lambda of make_msg_vec.
RepeatFuncs == {"myfunc_a", "myfunc_b", "make_msg_vec"}

\* gSum = 0; chops::repeat(N, f), or make_msg_vec(func, pre, body_char, N), up
\* to the first invocation.
repeat_call(f, n, pre, func, le) ==
    /\ rp.pc \in {"none", "done"}
    /\ IF f = "make_msg_vec" THEN func \in MsgFuncs
       ELSE pre = << >> /\ func = "none" /\ ~le
    /\ rp' = [ pc |-> "loop", f |-> f, n |-> n, i |-> 0, gSum |-> 0, ok |-> TRUE,
               seen |-> << >>, pre |-> pre, vec |-> << >>, func |-> func, le |-> le ]
    /\ UNCHANGED <<mk, q_mutex>>
    /\ UNCHANGED <<io_vars, sta_vars, thr_vars, entity_vars, acc_vars>>

\* One invocation of f by repeat, or its return.
\*   myfunc_a:     gSum += 1;
\*   myfunc_b:     REQUIRE (gSum == i); gSum += 1;
\*   make_msg_vec: vec.push_back(f(make_body_buf(pre, body_char, i+1)));
repeat_step ==
    /\ rp.pc = "loop"
    /\ IF repeat_more(rp.i, rp.n)
       THEN LET i == repeat_index(rp.i) IN
              rp' = CASE rp.f = "myfunc_a" ->
                           [ rp EXCEPT !.i = @ + 1, !.gSum = @ + 1 ]
                      [] rp.f = "myfunc_b" ->
                           [ rp EXCEPT !.i = @ + 1, !.gSum = @ + 1,
                                       !.ok = @ /\ (rp.gSum = i),
                                       !.seen = Append(@, i) ]
                      [] OTHER ->
                           [ rp EXCEPT !.i = @ + 1, !.seen = Append(@, i),
                                       !.vec = Append(@,
                                           call_func(rp.func,
                                               make_body_buf(rp.pre, 81, i + 1), rp.le)) ]
       ELSE rp' = [ rp EXCEPT !.pc = "done" ]
    /\ UNCHANGED <<mk, q_mutex>>
    /\ UNCHANGED <<io_vars, sta_vars, thr_vars, entity_vars, acc_vars>>

\* The repeat test and make_msg_vec, for every N up to MaxRepeat.
NextRepeat ==
    \/ \E f \in RepeatFuncs, n \in 0..MaxRepeat, pre \in Preambles,
          func \in MsgFuncs \cup {"none"}, le \in BOOLEAN : repeat_call(f, n, pre, func, le)
    \/ repeat_step

SpecRepeat == Init /\ [][NextRepeat]_vars

\* How many bytes a message builder adds to the body.
framing_overhead(func) ==
    CASE func = "variable_len" -> 2 [] func = "cr_lf" -> 2 [] OTHER -> 1

\* What f has been given so far is 0, 1, ... in ascending order, and f has
\* been invoked as often as the loop has turned.
C30_IndicesAscending ==
    /\ rp.ok
    /\ rp.i <= rp.n
    /\ rp.f \in {"myfunc_a", "myfunc_b"} => rp.gSum = rp.i
    /\ rp.f \in {"myfunc_b", "make_msg_vec"} => rp.seen = [ k \in 1..rp.i |-> k - 1 ]
    /\ rp.f = "make_msg_vec"
          => /\ Len(rp.vec) = rp.i
             /\ \A k \in 1..rp.i :
                    size(rp.vec[k]) = Len(rp.pre) + k + framing_overhead(rp.func)

msg_vec_returned == rp.pc = "done" /\ rp.f = "make_msg_vec"

\* The i-th message, i counted from 0, is func of the body made of the
\* preamble and i + 1 body characters.
C31_FirstNMessages ==
    msg_vec_returned
        => /\ Len(rp.vec) >= rp.n
           /\ \A i \in 0..(rp.n - 1) :
                  /\ rp.vec[i + 1] =
                         call_func(rp.func, make_body_buf(rp.pre, 81, i + 1), rp.le)
                  /\ size(make_body_buf(rp.pre, 81, i + 1)) = Len(rp.pre) + i + 1

\* What make_msg_vec returns: the N messages and nothing after them.
C31_ReturnsNMessages ==
    C31_FirstNMessages /\ (msg_vec_returned => Len(rp.vec) = rp.n)

\* C31: the message-set builder called with count N returns N + 1 messages:
\* for 0 <= i < N the i-th is the framing function applied to a body of
\* len(preamble) + i + 1 bytes, and the last is the empty body message of
\* that framing.
C31_MessageSetEndsWithEmptyMsg ==
    /\ C31_FirstNMessages
    /\ msg_vec_returned
          => /\ Len(rp.vec) = rp.n + 1
             /\ rp.vec[rp.n + 1] = make_empty_body_msg(rp.func, rp.le)

====
